---- MODULE Spec2Model ----
(***************************************************************************)
(* Chair Flying: the session state machine of src/chair_flying.py.         *)
(*                                                                         *)
(* A maneuver is the dict loaded from the maneuvers file, compared by      *)
(* value (Python dict equality); a key the dict lacks is Absent.  The      *)
(* descriptions are presentation only and are left out of the record.      *)
(***************************************************************************)
EXTENDS Integers, Sequences, FiniteSets, TLC

\* ------------------------------------------------------------------ bounds
\* Outer-loop cycles that present a maneuver (the loop itself is unbounded).
MaxCycles == 2
\* Longest catalog of the filter specification.
MaxCatalogLen == 2
\* record_maneuver calls made on a tracker used on its own.
MaxRecords == 2
\* record_maneuver calls made by a second tracker on the same file.
MaxOtherRecords == 1

\* ------------------------------------------------------------- Python values
None == "<none>"
Absent == "<absent>"

\* A phase written as an empty JSON object: a dict that is falsy in Python.
EmptyPhase == "<{}>"

\* bool(phase), as 'if phase:' and 'if current_phase:' test it.
Truthy(phase) == phase \notin {None, EmptyPhase}

Range(s) == {s[i] : i \in 1..Len(s)}

\* `m in lst` on a list of dicts.
InList(m, lst) == \E i \in 1..Len(lst) : lst[i] = m

Man(n, t, k, ph) == [name |-> n, type |-> t, kind |-> k, phases |-> ph]

NoManeuver == Man(None, Absent, Absent, <<>>)

\* str.lower() on the strings the catalogs hold.
Lower(s) ==
    CASE s = "Emergency" -> "emergency"
      [] s = "Private" -> "private"
      [] s = "Commercial" -> "commercial"
      [] OTHER -> s

\* m.get(key, "")
GetOrEmpty(v) == IF v = Absent THEN "" ELSE v

\* m.get("type", "").lower() == "emergency"
IsEmergency(m) == Lower(GetOrEmpty(m.type)) = "emergency"

\* ------------------------------------------------------------------ catalogs
TestManeuvers ==
    << Man("Power-Off Stall", "maneuver", "private", <<>>),
       Man("Chandelles", "maneuver", "commercial", <<>>),
       Man("Engine Failure", "emergency", Absent, <<>>) >>

CountManeuvers ==
    << Man("Chandelles", "maneuver", "commercial", <<>>),
       Man("Lazy Eights", "maneuver", "commercial", <<>>),
       Man("Steep Turns", "maneuver", "commercial", <<>>),
       Man("Engine Failure", "emergency", Absent, <<>>),
       Man("Electrical Fire", "emergency", Absent, <<>>) >>

\* Two entries with identical attributes (names are not enforced unique) and
\* an emergency with phases.
PhasedManeuvers ==
    << Man("Steep Turns", "maneuver", "Private", <<>>),
       Man("Steep Turns", "maneuver", "Private", <<>>),
       Man("Engine Fire", "Emergency", Absent, <<"Phase 1", "Phase 2">>) >>

SessionCatalogs == {TestManeuvers, CountManeuvers, PhasedManeuvers}

\* A catalog load_maneuvers accepts although a phase of it is an empty object.
UnvalidatedManeuvers ==
    << Man("Steep Turns", "maneuver", "private", <<>>),
       Man("Engine Fire", "emergency", Absent, <<EmptyPhase>>) >>

\* config.emergency_probability: <<>> is None, <<p>> a number of [0,100].
Probabilities == {<<>>, <<0>>, <<50>>, <<100>>}

\* random.random() * 100, a value of [0,100).
RandomDraws == {0, 49, 50, 99}

SessionModes == {"indefinite", "fixed"}
ManeuverKinds == {"all", "private", "commercial", "emergency"}
EmergencyModes == {"all", "random"}

VARIABLES
    all_maneuvers,          \* self.all_maneuvers
    emergency_probability,  \* self.config.emergency_probability
    config_dict,            \* the dict Configuration is constructed from
    configuration,          \* the Configuration constructed, or the error raised
    session_mode,           \* self.session_mode
    maneuver_kind,          \* self.maneuver_kind
    include_emergencies,    \* self.include_emergencies (None is falsy)
    emergency_mode,         \* self.emergency_mode
    maneuvers,              \* self.maneuvers, the active pool
    completed_maneuvers,    \* self.completed_maneuvers
    skipped_maneuvers,      \* self.skipped_maneuvers
    history,                \* self.tracker.history, when it is a list
    history_type,           \* type(self.tracker.history)
    history_file,           \* the content of the history file
    now,                    \* the reading of datetime.now()
    warned,                 \* the last save_history printed its warning
    failed,                 \* history variable: positions of the entries whose own save failed
    fresh,                  \* what a second ManeuverTracker loaded from the same file
    follow_ups,             \* <<the list get_follow_ups just returned>>, <<>> without a call
    other_entries,          \* history variable: entries a second running tracker saved
    pc,                     \* position of run()
    maneuver,               \* run(): maneuver
    current_phase,          \* run(): current_phase
    outcome,                \* how run() ended
    summary_shown,          \* show_summary() was called
    printed,                \* counts printed by show_remaining_count in the last step
    presented,              \* history variable: maneuvers returned by select_maneuver
    resolved                \* history variable: maneuvers ended by complete, review or skip

config == <<all_maneuvers, emergency_probability, config_dict, configuration>>
choices == <<session_mode, maneuver_kind, include_emergencies, emergency_mode>>
pools == <<maneuvers, completed_maneuvers, skipped_maneuvers>>
tracker == <<history, history_type, history_file, now, warned, failed, fresh,
             follow_ups, other_entries>>
cycle == <<maneuver, current_phase>>
ghost == <<presented, resolved>>

vars == <<all_maneuvers, emergency_probability, config_dict, configuration,
          session_mode, maneuver_kind,
          include_emergencies, emergency_mode, maneuvers, completed_maneuvers,
          skipped_maneuvers, history, history_type, history_file, now, warned,
          failed, fresh, follow_ups, other_entries, pc, maneuver, current_phase,
          outcome,
          summary_shown, printed, presented, resolved>>

\* ------------------------------------------------------------------- filter
\* KeepKind with a fault: emergencies do not ride along with a specific kind.
KeepKindOnly(ms, kind) ==
    IF kind = "emergency"
    THEN SelectSeq(ms, IsEmergency)
    ELSE IF kind # "all"
         THEN SelectSeq(ms, LAMBDA m : Lower(GetOrEmpty(m.kind)) = kind)
         ELSE ms

\* filter_maneuvers, the kind filter.
KeepKind(ms, kind) ==
    IF kind = "emergency"
    THEN SelectSeq(ms, IsEmergency)
    ELSE IF kind # "all"
         THEN SelectSeq(ms, LAMBDA m : IsEmergency(m)
                                       \/ Lower(GetOrEmpty(m.kind)) = kind)
         ELSE ms

\* DropEmergencies with a fault: an emergency is recognised by its missing kind.
DropKindless(ms, kind, include) ==
    IF ~include /\ kind # "emergency"
    THEN SelectSeq(ms, LAMBDA m : GetOrEmpty(m.kind) # "")
    ELSE ms

\* filter_maneuvers, the emergency exclusion.
DropEmergencies(ms, kind, include) ==
    IF ~include /\ kind # "emergency"
    THEN SelectSeq(ms, LAMBDA m : ~IsEmergency(m))
    ELSE ms

\* The list filter_maneuvers tests for emptiness and assigns to self.maneuvers.
filtered(all, kind, include) ==
    DropEmergencies(KeepKind(all, kind), kind, include)

\* ----------------------------------------------------------------- selector
\* available with a fault: completed maneuvers stay candidates in fixed mode.
available_ignoring_completed == maneuvers

\* select_maneuver: the maneuvers still available.
available ==
    IF session_mode = "fixed"
    THEN SelectSeq(maneuvers, LAMBDA m : ~InList(m, completed_maneuvers))
    ELSE maneuvers

\* _select_with_probability with a fault: the draw is compared with <=, so a
\* draw equal to the probability picks an emergency.
select_with_probability_inclusive(ms, emergency_prob) ==
    LET emergencies == SelectSeq(ms, IsEmergency)
        non_emergencies == SelectSeq(ms, LAMBDA m : ~IsEmergency(m))
    IN  IF emergencies = <<>> \/ non_emergencies = <<>>
        THEN Range(ms)
        ELSE UNION { IF r <= emergency_prob
                     THEN Range(emergencies)
                     ELSE Range(non_emergencies) : r \in RandomDraws }

\* _select_with_probability: every maneuver a draw can return.
select_with_probability(ms, emergency_prob) ==
    LET emergencies == SelectSeq(ms, IsEmergency)
        non_emergencies == SelectSeq(ms, LAMBDA m : ~IsEmergency(m))
    IN  IF emergencies = <<>> \/ non_emergencies = <<>>
        THEN Range(ms)
        ELSE UNION { IF r < emergency_prob
                     THEN Range(emergencies)
                     ELSE Range(non_emergencies) : r \in RandomDraws }

\* select_maneuver with a fault: with random emergencies a fixed session ends as
\* soon as no non-emergency maneuver is available.
select_maneuver_guaranteed_only ==
    IF session_mode = "fixed"
       /\ (available = <<>>
           \/ (emergency_mode = "random"
               /\ \A i \in 1..Len(available) : IsEmergency(available[i])))
    THEN {NoManeuver}
    ELSE IF (session_mode = "fixed" /\ emergency_mode = "all")
            \/ emergency_probability = <<>>
         THEN Range(available)
         ELSE select_with_probability(available, emergency_probability[1])

\* select_maneuver with a fault: in every mode a maneuver is offered once, and
\* the terminal signal is returned when all were.
select_maneuver_without_repeats ==
    LET unseen == SelectSeq(maneuvers, LAMBDA m : ~InList(m, presented))
    IN  IF unseen = <<>> THEN {NoManeuver} ELSE Range(unseen)

\* select_maneuver on a non-empty pool: every value a call can return, with
\* NoManeuver for None.
select_maneuver ==
    IF session_mode = "fixed" /\ available = <<>>
    THEN {NoManeuver}
    ELSE IF (session_mode = "fixed" /\ emergency_mode = "all")
            \/ emergency_probability = <<>>
         THEN Range(available)
         ELSE select_with_probability(available, emergency_probability[1])

\* get_user_response with a fault: 'c' is accepted whatever is shown.
get_user_response_with_complete(show_next, show_complete) ==
    {"f", "s", "p", "q", "c"} \cup (IF show_next THEN {"n"} ELSE {})

\* select_phase: every value a call can return.
select_phase(m) == IF m.phases = <<>> THEN {None} ELSE Range(m.phases)

\* run(): has_phases = "phases" in maneuver and maneuver["phases"]
has_phases(m) == m.phases # <<>>

\* get_user_response: the responses it returns; any other input is asked again.
get_user_response(show_next, show_complete) ==
    {"f", "s", "p", "q"}
    \cup (IF show_next THEN {"n"} ELSE IF show_complete THEN {"c"} ELSE {})

\* ------------------------------------------------------------- bookkeeping
\* entry with a fault: the phase passed is not written into the entry.
entry_without_phase(m, status, phase) ==
    [timestamp |-> now,
     maneuver |-> m.name,
     type |-> IF m.type = Absent THEN "normal" ELSE m.type,
     status |-> status]

\* record_maneuver: the entry it builds; the phase key exists only when a phase
\* was passed.
entry(m, status, phase) ==
    LET base == [timestamp |-> now,
                 maneuver |-> m.name,
                 type |-> IF m.type = Absent THEN "normal" ELSE m.type,
                 status |-> status]
    IN  IF Truthy(phase)
        THEN [k \in DOMAIN base \cup {"phase"} |->
                 IF k = "phase" THEN phase ELSE base[k]]
        ELSE base

\* record_maneuver: the history after the append.
record_maneuver(m, status, phase) == Append(history, entry(m, status, phase))

\* get_follow_ups with a fault: only the newest entry flagged for review.
get_follow_ups_newest ==
    LET reviews == SelectSeq(history, LAMBDA e : e.status = "review")
    IN  IF reviews = <<>> THEN <<>> ELSE <<reviews[Len(reviews)]>>

\* get_follow_ups on a list history.
get_follow_ups == SelectSeq(history, LAMBDA e : e.status = "review")

\* ------------------------------------------------------------- history file
\* The file is absent, readable JSON text, or something load_history cannot
\* use; items are the members of the JSON array it holds.
File(kind, items) == [kind |-> kind, items |-> items]

\* history_file.exists() is False.
NoFile == File("missing", <<>>)

\* Text that json.load rejects with JSONDecodeError: "{ invalid json }", or
\* what open(file, 'w') leaves behind before the dump has been written.
Unparseable == File("unparseable", <<>>)

\* A path open() refuses with an IOError (a directory, no permission).
Unreadable == File("unreadable", <<>>)

\* Bytes that are not UTF-8: the read raises UnicodeDecodeError.
Undecodable == File("undecodable", <<>>)

\* Valid JSON whose top level is an object such as {"history": []}.
JsonObject == File("object", <<>>)

\* Encode with a fault: the phase member is not written.
EncodeWithoutPhase(e) == {<<k, e[k]>> : k \in DOMAIN e \ {"phase"}}

\* json.dump of one entry: a JSON object, the set of its members.
Encode(e) == {<<k, e[k]>> : k \in DOMAIN e}

\* json.load of one JSON object: the dict of its members.
Decode(o) == [k \in {p[1] : p \in o} |-> (CHOOSE p \in o : p[1] = k)[2]]

\* json.dump(self.history, f): the whole list, every time.
Dump(h) == File("list", [i \in 1..Len(h) |-> Encode(h[i])])

Loaded(raised, type, items) == [raised |-> raised, type |-> type, items |-> items]

\* load_history on a tracker whose history is still the [] of __init__: the
\* value self.history ends with, and whether the call raised.
load_history(file) ==
    CASE file.kind = "missing" -> Loaded(FALSE, "list", <<>>)
      [] file.kind \in {"unparseable", "unreadable"} -> Loaded(FALSE, "list", <<>>)
      [] file.kind = "undecodable" -> Loaded(TRUE, "list", <<>>)
      [] file.kind = "object" -> Loaded(FALSE, "dict", <<>>)
      [] file.kind = "list" ->
            Loaded(FALSE, "list",
                   [i \in 1..Len(file.items) |-> Decode(file.items[i])])

\* No second tracker has been built.
Unloaded == Loaded(FALSE, "unloaded", <<>>)

Saved(file, warning) == [file |-> file, warned |-> warning]

\* save_history with a fault: nothing is written until the session ends.
save_history_buffered(h, file) == {Saved(file, FALSE)}

\* save_history with a fault: a save writes the newest entry after the entries
\* the file already holds.
save_history_newest_only(h, file) ==
    { Saved(IF file.kind = "list"
            THEN File("list", Append(file.items, Encode(h[Len(h)])))
            ELSE File("list", <<Encode(h[Len(h)])>>), FALSE),
      Saved(file, TRUE),
      Saved(Unparseable, TRUE) }

\* save_history: every way the call can end.  The write succeeds; open() fails
\* with the IOError the method catches and the file is as before; or the
\* IOError comes after open(file, 'w') has truncated the file.
save_history(h, file) ==
    { Saved(Dump(h), FALSE),
      Saved(file, TRUE),
      Saved(Unparseable, TRUE) }

\* mark_maneuver_completed with a fault: the maneuver is not appended.
mark_nothing_completed(m) == completed_maneuvers

\* mark_maneuver_completed: the completed list after the call.
mark_maneuver_completed(m) ==
    IF session_mode = "fixed" /\ ~InList(m, completed_maneuvers)
    THEN Append(completed_maneuvers, m)
    ELSE completed_maneuvers

\* show_remaining_count with a fault: only non-emergency maneuvers are counted.
show_remaining_non_emergency(pool, done) ==
    IF session_mode = "fixed"
    THEN LET remaining ==
                 Len(SelectSeq(pool, LAMBDA m : ~IsEmergency(m)))
                 - Len(SelectSeq(done, LAMBDA m : ~IsEmergency(m)))
         IN  IF remaining > 0 THEN <<remaining>> ELSE <<>>
    ELSE <<>>

\* show_remaining_count: what it prints, given the completed list.
show_remaining_count(pool, done) ==
    IF session_mode = "fixed"
    THEN LET remaining == Len(pool) - Len(done)
         IN  IF remaining > 0 THEN <<remaining>> ELSE <<>>
    ELSE <<>>

\* RemoveFromPool with a fault: the maneuver stays in the active pool.
RemoveNothing(pool, m) == pool

\* permanently_skip_maneuver: the active pool after the removal.
RemoveFromPool(pool, m) == SelectSeq(pool, LAMBDA x : x # m)

\* has_maneuvers with a fault: the emptied pool is not noticed.
has_maneuvers_always(pool) == TRUE

\* permanently_skip_maneuver: its return value.
has_maneuvers(pool) == pool # <<>>

\* ------------------------------------------------------------ configuration
\* A JSON value of the configuration file: a finite number, NaN (json.load
\* accepts the literal), a boolean, a string; or the key is absent, or the
\* attribute is None.
Num(v) == [tag |-> "number", v |-> v]
NaN == [tag |-> "nan", v |-> 0]
Bool(b) == [tag |-> "bool", v |-> IF b THEN 1 ELSE 0]
Str == [tag |-> "str", v |-> 0]
NoKey == [tag |-> "absent", v |-> 0]
NoneValue == [tag |-> "none", v |-> 0]

ConfigDict(file, min, max, prob) ==
    [maneuvers_file |-> file, interval_min_sec |-> min,
     interval_max_sec |-> max, emergency_probability |-> prob]

\* isinstance(prob, (int, float)): bool is a subclass of int, NaN is a float.
isinstance_number(x) == x.tag \in {"number", "bool", "nan"}

\* a > b on numbers: every comparison with NaN is False.
Greater(a, b) == a.tag # "nan" /\ b.tag # "nan" /\ a.v > b.v

ConfigError(message) == [error |-> message]

\* Configuration._validate_and_set: the attributes set, or the ValueError.
validate_and_set(c) ==
    LET has_min == c.interval_min_sec # NoKey
        has_max == c.interval_max_sec # NoKey
        prob == c.emergency_probability
    IN  IF c.maneuvers_file = Absent
        THEN ConfigError("missing required key: maneuvers_file")
        ELSE IF has_min # has_max
        THEN ConfigError("must be provided together")
        ELSE IF has_min /\ has_max
                /\ Greater(c.interval_min_sec, c.interval_max_sec)
        THEN ConfigError("must be less than or equal to")
        ELSE IF prob # NoKey /\ ~isinstance_number(prob)
        THEN ConfigError("must be a number")
        ELSE IF prob # NoKey /\ (Greater(Num(0), prob) \/ Greater(prob, Num(100)))
        THEN ConfigError("must be between 0 and 100")
        ELSE [error |-> None,
              maneuvers_file |-> c.maneuvers_file,
              interval_min_sec |->
                  IF has_min /\ has_max THEN c.interval_min_sec ELSE NoneValue,
              interval_max_sec |->
                  IF has_min /\ has_max THEN c.interval_max_sec ELSE NoneValue,
              emergency_probability |-> IF prob # NoKey THEN prob ELSE NoneValue]

\* Configuration.is_manual_mode
is_manual_mode(cfg) ==
    cfg.interval_min_sec = NoneValue /\ cfg.interval_max_sec = NoneValue

\* The configuration of a session: manual mode, with the probability given.
SessionConfig(probability) ==
    ConfigDict("maneuvers.json", NoKey, NoKey,
               IF probability = <<>> THEN NoKey ELSE Num(probability[1]))

\* load_config: the Configuration the application holds.
ConfigLoaded(probabilities) ==
    /\ emergency_probability \in probabilities
    /\ config_dict = SessionConfig(emergency_probability)
    /\ configuration = validate_and_set(config_dict)

\* --------------------------------------------------------------------- Init
\* ManeuverTracker.__init__ before load_history; with no file on disk the load
\* changes nothing.
TrackerNew(files) ==
    /\ history = <<>>
    /\ history_type = "list"
    /\ history_file \in files
    /\ now = 0
    /\ warned = FALSE
    /\ failed = {}
    /\ fresh = Unloaded
    /\ follow_ups = <<>>
    /\ other_entries = <<>>

\* The state once ChairFlying(config_file) is constructed and run() begins.
Constructed(catalogs) ==
    /\ all_maneuvers \in catalogs
    /\ ConfigLoaded(Probabilities)
    /\ session_mode = None
    /\ maneuver_kind = None
    /\ include_emergencies = FALSE
    /\ emergency_mode = None
    /\ maneuvers = <<>>
    /\ completed_maneuvers = <<>>
    /\ skipped_maneuvers = <<>>
    /\ TrackerNew({NoFile})
    /\ pc = "prompt_session_mode"
    /\ maneuver = NoManeuver
    /\ current_phase = None
    /\ outcome = None
    /\ summary_shown = FALSE
    /\ printed = <<>>
    /\ presented = <<>>
    /\ resolved = {}

Init == Constructed(SessionCatalogs)

\* -------------------------------------------------------------------- setup
\* run(): the prompt that follows once include_emergencies is known.
AfterInclude(include) ==
    IF session_mode = "fixed" /\ include
    THEN "prompt_emergency_mode"
    ELSE "filter_maneuvers"

PromptSessionMode ==
    /\ pc = "prompt_session_mode"
    /\ \E mode \in SessionModes : session_mode' = mode
    /\ pc' = "prompt_maneuver_kind"
    /\ UNCHANGED <<config, maneuver_kind, include_emergencies, emergency_mode,
                   pools, tracker, cycle, outcome, summary_shown, printed, ghost>>

PromptManeuverKind ==
    /\ pc = "prompt_maneuver_kind"
    /\ \E kind \in ManeuverKinds :
          /\ maneuver_kind' = kind
          /\ IF kind = "emergency"
             THEN /\ include_emergencies' = TRUE
                  /\ pc' = AfterInclude(TRUE)
             ELSE /\ pc' = "prompt_include_emergencies"
                  /\ UNCHANGED include_emergencies
    /\ UNCHANGED <<config, session_mode, emergency_mode, pools, tracker, cycle,
                   outcome, summary_shown, printed, ghost>>

PromptIncludeEmergencies ==
    /\ pc = "prompt_include_emergencies"
    /\ \E include \in BOOLEAN :
          /\ include_emergencies' = include
          /\ pc' = AfterInclude(include)
    /\ UNCHANGED <<config, session_mode, maneuver_kind, emergency_mode, pools,
                   tracker, cycle, outcome, summary_shown, printed, ghost>>

PromptEmergencyMode ==
    /\ pc = "prompt_emergency_mode"
    /\ \E mode \in EmergencyModes : emergency_mode' = mode
    /\ pc' = "filter_maneuvers"
    /\ UNCHANGED <<config, session_mode, maneuver_kind, include_emergencies,
                   pools, tracker, cycle, outcome, summary_shown, printed, ghost>>

\* FilterManeuvers with a fault: the emptiness check is missing.
FilterManeuversUnchecked ==
    /\ pc = "filter_maneuvers"
    /\ pc' = "wait"
    /\ maneuvers' = filtered(all_maneuvers, maneuver_kind, include_emergencies)
    /\ UNCHANGED <<config, choices, completed_maneuvers, skipped_maneuvers,
                   tracker, cycle, outcome, summary_shown, printed, ghost>>

\* FilterManeuvers with a fault: after an empty selection the preferences are
\* asked again.
FilterManeuversAsksAgain ==
    /\ pc = "filter_maneuvers"
    /\ LET pool == filtered(all_maneuvers, maneuver_kind, include_emergencies)
       IN  IF pool = <<>>
           THEN /\ pc' = "prompt_maneuver_kind"
                /\ outcome' = "filter_error"
                /\ UNCHANGED maneuvers
           ELSE /\ pc' = "wait"
                /\ maneuvers' = pool
                /\ UNCHANGED outcome
    /\ UNCHANGED <<config, choices, completed_maneuvers, skipped_maneuvers,
                   tracker, cycle, summary_shown, printed, ghost>>

\* filter_maneuvers as run() calls it: an empty selection is reported and
\* run() returns without a session and without a summary.
FilterManeuvers ==
    /\ pc = "filter_maneuvers"
    /\ LET pool == filtered(all_maneuvers, maneuver_kind, include_emergencies)
       IN  IF pool = <<>>
           THEN /\ pc' = "done"
                /\ outcome' = "filter_error"
                /\ UNCHANGED maneuvers
           ELSE /\ pc' = "wait"
                /\ maneuvers' = pool
                /\ UNCHANGED outcome
    /\ UNCHANGED <<config, choices, completed_maneuvers, skipped_maneuvers,
                   tracker, cycle, summary_shown, printed, ghost>>

\* ------------------------------------------------------------------ session
\* The wait ends and select_maneuver is called.
NextManeuver ==
    /\ pc = "wait"
    /\ IF maneuvers = <<>>
       THEN /\ pc' = "done"
            /\ outcome' = "error"
            /\ UNCHANGED <<cycle, summary_shown, presented>>
       ELSE \E m \in select_maneuver :
               IF m = NoManeuver
               THEN /\ pc' = "done"
                    /\ outcome' = "all_completed"
                    /\ summary_shown' = TRUE
                    /\ UNCHANGED <<cycle, presented>>
               ELSE /\ Len(presented) < MaxCycles
                    /\ maneuver' = m
                    /\ current_phase' = None
                    /\ presented' = Append(presented, m)
                    /\ pc' = "get_user_response"
                    /\ UNCHANGED <<outcome, summary_shown>>
    /\ printed' = <<>>
    /\ UNCHANGED <<config, choices, pools, tracker, resolved>>

show_next == has_phases(maneuver) /\ current_phase = None
show_complete == ~show_next

Accepts(response) ==
    /\ pc = "get_user_response"
    /\ response \in get_user_response(show_next, show_complete)

\* Quit with a fault: the maneuver on screen is marked completed on the way out.
QuitMarking ==
    /\ Accepts("q")
    /\ completed_maneuvers' = mark_maneuver_completed(maneuver)
    /\ pc' = "done"
    /\ outcome' = "quit"
    /\ summary_shown' = TRUE
    /\ printed' = <<>>
    /\ UNCHANGED <<config, choices, maneuvers, skipped_maneuvers, tracker,
                   cycle, ghost>>

Quit ==
    /\ Accepts("q")
    /\ pc' = "done"
    /\ outcome' = "quit"
    /\ summary_shown' = TRUE
    /\ printed' = <<>>
    /\ UNCHANGED <<config, choices, pools, tracker, cycle, ghost>>

Advance ==
    /\ Accepts("n")
    /\ \E phase \in select_phase(maneuver) :
          /\ current_phase' = phase
          /\ pc' = IF Truthy(phase) THEN "get_user_response" ELSE "wait"
    /\ printed' = <<>>
    /\ UNCHANGED <<config, choices, pools, tracker, maneuver, outcome,
                   summary_shown, ghost>>

\* record_maneuver on a list history: the append, then save_history.
Record(m, status, phase) ==
    /\ history_type = "list"
    /\ history' = record_maneuver(m, status, phase)
    /\ \E saved \in save_history(history', history_file) :
          /\ history_file' = saved.file
          /\ warned' = saved.warned
          /\ failed' = IF saved.warned
                       THEN failed \cup {Len(history')}
                       ELSE failed
    /\ fresh' = Unloaded
    /\ follow_ups' = <<>>
    /\ UNCHANGED <<history_type, other_entries>>

\* mark_maneuver_completed, show_remaining_count and the break of the cycle.
Resolve ==
    /\ completed_maneuvers' = mark_maneuver_completed(maneuver)
    /\ printed' = show_remaining_count(maneuvers, completed_maneuvers')
    /\ resolved' = resolved \cup {maneuver}
    /\ pc' = "wait"
    /\ UNCHANGED <<config, choices, maneuvers, skipped_maneuvers, cycle,
                   outcome, summary_shown, presented>>

Completed ==
    /\ Accepts("c")
    /\ Record(maneuver, "completed", current_phase)
    /\ now' = now + 1
    /\ Resolve

Review ==
    /\ Accepts("f")
    /\ Record(maneuver, "review", current_phase)
    /\ now' = now + 1
    /\ Resolve

\* Skip with a fault: the skip is written to the history as a completion.
SkipRecording ==
    /\ Accepts("s")
    /\ Record(maneuver, "completed", current_phase)
    /\ now' = now + 1
    /\ Resolve

Skip ==
    /\ Accepts("s")
    /\ UNCHANGED tracker
    /\ Resolve

PermanentSkip ==
    /\ Accepts("p")
    /\ pc' = "confirm_permanent_skip"
    /\ printed' = <<>>
    /\ UNCHANGED <<config, choices, pools, tracker, cycle, outcome,
                   summary_shown, ghost>>

\* ConfirmSkip with a fault: the maneuver removed is also marked completed.
ConfirmSkipCompleting ==
    /\ pc = "confirm_permanent_skip"
    /\ skipped_maneuvers' = Append(skipped_maneuvers, maneuver)
    /\ maneuvers' = RemoveFromPool(maneuvers, maneuver)
    /\ completed_maneuvers' = mark_maneuver_completed(maneuver)
    /\ IF has_maneuvers(maneuvers')
       THEN /\ pc' = "wait"
            /\ UNCHANGED <<outcome, summary_shown>>
       ELSE /\ pc' = "done"
            /\ outcome' = "empty_pool"
            /\ summary_shown' = TRUE
    /\ printed' = <<>>
    /\ UNCHANGED <<config, choices, tracker, cycle, ghost>>

\* confirm_permanent_skip answered yes: permanently_skip_maneuver.
ConfirmSkip ==
    /\ pc = "confirm_permanent_skip"
    /\ skipped_maneuvers' = Append(skipped_maneuvers, maneuver)
    /\ maneuvers' = RemoveFromPool(maneuvers, maneuver)
    /\ IF has_maneuvers(maneuvers')
       THEN /\ pc' = "wait"
            /\ UNCHANGED <<outcome, summary_shown>>
       ELSE /\ pc' = "done"
            /\ outcome' = "empty_pool"
            /\ summary_shown' = TRUE
    /\ printed' = <<>>
    /\ UNCHANGED <<config, choices, completed_maneuvers, tracker, cycle, ghost>>

\* CancelSkip with a fault: the maneuver is shown again from its start, the
\* phase chosen before forgotten.
CancelSkipResetsPhase ==
    /\ pc = "confirm_permanent_skip"
    /\ pc' = "get_user_response"
    /\ current_phase' = None
    /\ printed' = <<>>
    /\ UNCHANGED <<config, choices, pools, tracker, maneuver, outcome,
                   summary_shown, ghost>>

\* confirm_permanent_skip answered no.
CancelSkip ==
    /\ pc = "confirm_permanent_skip"
    /\ pc' = "get_user_response"
    /\ printed' = <<>>
    /\ UNCHANGED <<config, choices, pools, tracker, cycle, outcome,
                   summary_shown, ghost>>

\* Ctrl-C inside the try block of run(): at the wait or at a prompt of a cycle.
InterruptSession ==
    /\ pc \in {"wait", "get_user_response", "confirm_permanent_skip"}
    /\ pc' = "done"
    /\ outcome' = "interrupted"
    /\ summary_shown' = TRUE
    /\ printed' = <<>>
    /\ UNCHANGED <<config, choices, pools, tracker, cycle, ghost>>

\* Ctrl-C at a setup prompt, before the try block: run() and main() let the
\* KeyboardInterrupt through.
InterruptSetup ==
    /\ pc \in {"prompt_session_mode", "prompt_maneuver_kind",
               "prompt_include_emergencies", "prompt_emergency_mode"}
    /\ pc' = "done"
    /\ outcome' = "uncaught_interrupt"
    /\ UNCHANGED <<config, choices, pools, tracker, cycle, summary_shown,
                   printed, ghost>>

Next ==
    \/ PromptSessionMode
    \/ PromptManeuverKind
    \/ PromptIncludeEmergencies
    \/ PromptEmergencyMode
    \/ FilterManeuvers
    \/ NextManeuver
    \/ Quit
    \/ Advance
    \/ Completed
    \/ Review
    \/ Skip
    \/ PermanentSkip
    \/ ConfirmSkip
    \/ CancelSkip
    \/ InterruptSession
    \/ InterruptSetup

Spec == Init /\ [][Next]_vars

\* ------------------------------------------------- the filter on its own
\* filter_maneuvers called on an application whose preferences were set
\* directly, as the unit tests call it.
FilterTypes == {"emergency", "Emergency", "maneuver", Absent}
FilterKinds == {"private", "Commercial", Absent}
FilterManeuverSet == {Man("M", t, k, <<>>) : t \in FilterTypes, k \in FilterKinds}
FilterCatalogs ==
    UNION {[1..n -> FilterManeuverSet] : n \in 1..MaxCatalogLen}

InitFilter ==
    /\ all_maneuvers \in FilterCatalogs
    /\ ConfigLoaded({<<>>})
    /\ session_mode = None
    /\ maneuver_kind \in ManeuverKinds
    /\ include_emergencies \in BOOLEAN
    /\ emergency_mode = None
    /\ maneuvers = <<>>
    /\ completed_maneuvers = <<>>
    /\ skipped_maneuvers = <<>>
    /\ TrackerNew({NoFile})
    /\ pc = "filter_maneuvers"
    /\ maneuver = NoManeuver
    /\ current_phase = None
    /\ outcome = None
    /\ summary_shown = FALSE
    /\ printed = <<>>
    /\ presented = <<>>
    /\ resolved = {}

NextFilter == FilterManeuvers

SpecFilter == InitFilter /\ [][NextFilter]_vars

\* ------------------------------------------------ the tracker on its own
\* A ManeuverTracker built on a history file and called directly, as the unit
\* tests call it, with a second tracker built on the same file.
\* An entry an earlier session left in the file, at an earlier clock reading.
PriorEntry ==
    [timestamp |-> 0, maneuver |-> "Test Maneuver", type |-> "maneuver",
     status |-> "review"]

InitialFiles ==
    {NoFile, Unparseable, Unreadable, Undecodable, JsonObject,
     Dump(<<>>), Dump(<<PriorEntry>>)}

\* A maneuver with phases and one without a type.
TrackerManeuvers ==
    { Man("Engine Fire", "Emergency", Absent, <<"Phase 1">>),
      Man("Basic Maneuver", Absent, Absent, <<>>) }

Statuses == {"completed", "review"}

\* The clock may not have moved between two calls made back to back.
ClockSteps == {0, 1}

InitTracker ==
    /\ all_maneuvers = TestManeuvers
    /\ ConfigLoaded({<<>>})
    /\ session_mode = None
    /\ maneuver_kind = None
    /\ include_emergencies = FALSE
    /\ emergency_mode = None
    /\ maneuvers = <<>>
    /\ completed_maneuvers = <<>>
    /\ skipped_maneuvers = <<>>
    /\ TrackerNew(InitialFiles)
    /\ pc = "tracker_init"
    /\ maneuver = NoManeuver
    /\ current_phase = None
    /\ outcome = None
    /\ summary_shown = FALSE
    /\ printed = <<>>
    /\ presented = <<>>
    /\ resolved = {}

session == <<config, choices, pools, cycle, outcome, summary_shown, printed,
             ghost>>

\* ManeuverTracker.__init__: load_history.
TrackerInit ==
    /\ pc = "tracker_init"
    /\ LET loaded == load_history(history_file)
       IN  /\ history' = loaded.items
           /\ history_type' = loaded.type
           /\ pc' = IF loaded.raised THEN "raised" ELSE "tracker"
    /\ UNCHANGED <<history_file, now, warned, failed, fresh, follow_ups,
                   other_entries, session>>

\* record_maneuver returns.
TrackerRecord ==
    /\ pc = "tracker"
    /\ Len(history) < MaxRecords
    /\ \E m \in TrackerManeuvers, status \in Statuses :
          \E phase \in {None} \cup Range(m.phases) :
              Record(m, status, phase)
    /\ \E step \in ClockSteps : now' = now + step
    /\ UNCHANGED <<pc, session>>

\* get_follow_ups returns.
TrackerFollowUps ==
    /\ pc = "tracker"
    /\ history_type = "list"
    /\ follow_ups' = <<get_follow_ups>>
    /\ UNCHANGED <<history, history_type, history_file, now, warned, failed,
                   fresh, other_entries, pc, session>>

\* record_maneuver or get_follow_ups on a history that is not a list:
\* AttributeError from append, TypeError from the subscript.
TrackerRaises ==
    /\ pc = "tracker"
    /\ history_type # "list"
    /\ pc' = "raised"
    /\ UNCHANGED <<tracker, session>>

\* A second ManeuverTracker is built on the same file.
TrackerReload ==
    /\ pc = "tracker"
    /\ fresh = Unloaded
    /\ fresh' = load_history(history_file)
    /\ UNCHANGED <<history, history_type, history_file, now, warned, failed,
                   follow_ups, other_entries, pc, session>>

\* The process dies between two calls.
TrackerCrash ==
    /\ pc = "tracker"
    /\ pc' = "crashed"
    /\ UNCHANGED <<tracker, session>>

\* The process dies inside record_maneuver, after the append: before
\* save_history opens the file, after open(file, 'w') truncated it, or when the
\* dump is on disk.
TrackerCrashInSave ==
    /\ pc = "tracker"
    /\ history_type = "list"
    /\ Len(history) < MaxRecords
    /\ \E m \in TrackerManeuvers :
          \E phase \in {None} \cup Range(m.phases) :
              history' = record_maneuver(m, "completed", phase)
    /\ history_file' \in {history_file, Unparseable, Dump(history')}
    /\ pc' = "crashed_in_save"
    /\ UNCHANGED <<history_type, now, warned, failed, fresh, follow_ups,
                   other_entries, session>>

NextTracker ==
    \/ TrackerInit
    \/ TrackerRecord
    \/ TrackerFollowUps
    \/ TrackerRaises
    \/ TrackerReload
    \/ TrackerCrash
    \/ TrackerCrashInSave

SpecTracker == InitTracker /\ [][NextTracker]_vars

\* ------------------------------------------- two trackers on one file
\* The entry a second running instance of the application records.
OtherEntry ==
    [timestamp |-> now, maneuver |-> "Chandelles", type |-> "maneuver",
     status |-> "completed"]

\* A second ManeuverTracker, built on the same file after the last write to
\* it, records an entry and its save succeeds.
OtherTrackerRecords ==
    /\ pc = "tracker"
    /\ LET other == load_history(history_file)
       IN  /\ ~other.raised
           /\ other.type = "list"
           /\ Len(other_entries) < MaxOtherRecords
           /\ history_file' = Dump(Append(other.items, OtherEntry))
    /\ other_entries' = Append(other_entries, OtherEntry)
    /\ UNCHANGED <<history, history_type, now, warned, failed, fresh,
                   follow_ups, pc, session>>

NextShared ==
    \/ TrackerInit
    \/ TrackerRecord
    \/ OtherTrackerRecords

SpecShared == InitTracker /\ [][NextShared]_vars

\* ----------------------------------------------- Configuration on its own
\* Configuration(config_dict) called directly, as the unit tests call it.
IntervalValues == {NoKey, Num(30), Num(120)}

ProbabilityValues ==
    {NoKey, Num(-1), Num(0), Num(25), Num(100), Num(150), Str, Bool(TRUE), NaN}

ConfigDicts ==
    {ConfigDict(file, min, max, prob) :
        file \in {Absent, "maneuvers.json"},
        min \in IntervalValues, max \in IntervalValues,
        prob \in ProbabilityValues}

Unconstructed == [error |-> "<unconstructed>"]

InitConfig ==
    /\ all_maneuvers = TestManeuvers
    /\ emergency_probability = <<>>
    /\ config_dict \in ConfigDicts
    /\ configuration = Unconstructed
    /\ session_mode = None
    /\ maneuver_kind = None
    /\ include_emergencies = FALSE
    /\ emergency_mode = None
    /\ maneuvers = <<>>
    /\ completed_maneuvers = <<>>
    /\ skipped_maneuvers = <<>>
    /\ TrackerNew({NoFile})
    /\ pc = "configuration_init"
    /\ maneuver = NoManeuver
    /\ current_phase = None
    /\ outcome = None
    /\ summary_shown = FALSE
    /\ printed = <<>>
    /\ presented = <<>>
    /\ resolved = {}

\* Configuration.__init__
ConstructConfiguration ==
    /\ pc = "configuration_init"
    /\ configuration' = validate_and_set(config_dict)
    /\ pc' = IF configuration'.error = None THEN "constructed" ELSE "config_error"
    /\ UNCHANGED <<all_maneuvers, emergency_probability, config_dict, choices,
                   pools, tracker, cycle, outcome, summary_shown, printed, ghost>>

NextConfig == ConstructConfiguration

SpecConfig == InitConfig /\ [][NextConfig]_vars

\* --------------------------------------- a session on an unchecked catalog
InitUnvalidated == Constructed({UnvalidatedManeuvers})

SpecUnvalidated == InitUnvalidated /\ [][Next]_vars

\* ------------------------------------------ fixed-length sessions to the end
\* The catalogs cut to their last MaxCycles maneuvers, so that a fixed session
\* can present its whole pool.
FixedCatalogs ==
    { SubSeq(c, Len(c) - n + 1, Len(c)) :
        c \in SessionCatalogs, n \in 1..MaxCycles }

\* run() once 'f' was answered at the session-mode prompt.
InitFixed ==
    /\ all_maneuvers \in FixedCatalogs
    /\ ConfigLoaded(Probabilities)
    /\ session_mode = "fixed"
    /\ maneuver_kind = None
    /\ include_emergencies = FALSE
    /\ emergency_mode = None
    /\ maneuvers = <<>>
    /\ completed_maneuvers = <<>>
    /\ skipped_maneuvers = <<>>
    /\ TrackerNew({NoFile})
    /\ pc = "prompt_maneuver_kind"
    /\ maneuver = NoManeuver
    /\ current_phase = None
    /\ outcome = None
    /\ summary_shown = FALSE
    /\ printed = <<>>
    /\ presented = <<>>
    /\ resolved = {}

\* The remaining setup prompts, the filter and the trigger of a cycle followed
\* by select_maneuver.
Proceeds ==
    \/ PromptManeuverKind
    \/ PromptIncludeEmergencies
    \/ PromptEmergencyMode
    \/ FilterManeuvers
    \/ NextManeuver

\* The answers that end a cycle.
EndsCycle ==
    \/ Completed
    \/ Review
    \/ Skip
    \/ ConfirmSkip
    \/ Quit

\* The answers after which the same maneuver is prompted for again.
Reprompts ==
    \/ Advance
    \/ PermanentSkip
    \/ CancelSkip

NextFixed == Proceeds \/ EndsCycle \/ Reprompts

\* Every trigger fires and every prompt is eventually answered with an action
\* that ends the cycle; no Ctrl-C.
SpecFixed ==
    /\ InitFixed
    /\ [][NextFixed]_vars
    /\ WF_vars(Proceeds)
    /\ WF_vars(EndsCycle)

\* ===================================================================== claims
NoRepeat(s) == \A i, j \in 1..Len(s) : i # j => s[i] # s[j]

AllResolved == \A i \in 1..Len(maneuvers) : maneuvers[i] \in resolved

Presenting == pc \in {"get_user_response", "confirm_permanent_skip"}

\* The state right after a cycle ended by complete, review or skip.
JustResolved ==
    /\ pc = "wait"
    /\ maneuver \in resolved
    /\ ~InList(maneuver, skipped_maneuvers)

\* C1: in a fixed session without permanent skips, once every member of the
\* active pool has been resolved by complete, review or skip, the next call of
\* select_maneuver returns None: no maneuver is presented and the loop ends with
\* the all-completed outcome.
C1_FixedExhaustion ==
    [][(/\ pc = "wait"
        /\ session_mode = "fixed"
        /\ skipped_maneuvers = <<>>
        /\ AllResolved
        /\ outcome' # "interrupted")
       => (/\ pc' = "done"
           /\ outcome' = "all_completed"
           /\ summary_shown'
           /\ presented' = presented)]_vars

C1_Witness ==
    /\ outcome = "all_completed"
    /\ session_mode = "fixed"
    /\ skipped_maneuvers = <<>>
    /\ Len(presented) = 2
    /\ AllResolved

GuaranteedRemaining ==
    Cardinality({i \in 1..Len(maneuvers) :
                    /\ ~IsEmergency(maneuvers[i])
                    /\ ~InList(maneuvers[i], completed_maneuvers)})

\* C4: in fixed mode with emergency_mode = random the remaining count reported
\* after a resolution is computed over the non-emergency members of the pool
\* only (3 non-emergency, 2 emergency, one non-emergency resolved: 2, not 4).
C4_RemainingRandom ==
    (session_mode = "fixed" /\ emergency_mode = "random" /\ JustResolved)
    => printed = IF GuaranteedRemaining > 0 THEN <<GuaranteedRemaining>> ELSE <<>>

\* C5: in fixed mode with emergency_mode = all the remaining count reported
\* after a resolution is the size of the active pool minus the number of
\* completed maneuvers (3 non-emergency, 2 emergency, one resolved: 4).
C5_RemainingAll ==
    (session_mode = "fixed" /\ emergency_mode = "all" /\ JustResolved)
    => printed = IF Len(maneuvers) > Len(completed_maneuvers)
                 THEN <<Len(maneuvers) - Len(completed_maneuvers)>>
                 ELSE <<>>

C5_Witness ==
    /\ session_mode = "fixed"
    /\ emergency_mode = "all"
    /\ JustResolved
    /\ maneuvers = CountManeuvers
    /\ Len(completed_maneuvers) = 1
    /\ printed = <<4>>

\* C6: a confirmed permanent skip shrinks the active pool by exactly one
\* element and appends the maneuver to the permanently-skipped list, for every
\* catalog, also one that holds two maneuvers with identical attributes.
C6_SkipShrinksByOne ==
    [][skipped_maneuvers' # skipped_maneuvers
       => (/\ Len(maneuvers') = Len(maneuvers) - 1
           /\ skipped_maneuvers' = Append(skipped_maneuvers, maneuver))]_vars

\* C7: permanent skip is irreversible: in both session modes a permanently
\* skipped maneuver is never a member of the active pool again and is never
\* the maneuver select_maneuver returned for a later cycle.
C7_SkipIrreversible ==
    /\ \A i \in 1..Len(skipped_maneuvers) :
          ~InList(skipped_maneuvers[i], maneuvers)
    /\ Presenting => ~InList(maneuver, skipped_maneuvers)

C7_Witness ==
    /\ session_mode = "indefinite"
    /\ skipped_maneuvers # <<>>
    /\ pc = "get_user_response"
    /\ Len(presented) = 2

\* C8: a confirmed permanent skip of the last remaining maneuver empties the
\* active pool, and a skip that empties the pool ends the session in that
\* cycle with the empty-pool outcome and no further selection; when maneuvers
\* remain the loop goes on to the next wait.
C8_SkipLastEndsSession ==
    [][skipped_maneuvers' # skipped_maneuvers
       => /\ Len(maneuvers) = 1 => maneuvers' = <<>>
          /\ IF maneuvers' = <<>>
             THEN /\ pc' = "done"
                  /\ outcome' = "empty_pool"
                  /\ summary_shown'
                  /\ presented' = presented
             ELSE /\ pc' = "wait"
                  /\ outcome' = None]_vars

C8_Witness ==
    /\ outcome = "empty_pool"
    /\ maneuvers = <<>>
    /\ Len(skipped_maneuvers) = 2

\* C9: while a maneuver with phases is presented and no phase is chosen, 'mark
\* complete' is not accepted and advance, review, skip, permanent skip and quit
\* are; 'advance' is accepted in no other state.
C9_NoCompleteBeforePhase ==
    /\ (pc = "get_user_response" /\ has_phases(maneuver) /\ current_phase = None)
       => (/\ ~ENABLED Completed
           /\ ENABLED Advance
           /\ ENABLED Review
           /\ ENABLED Skip
           /\ ENABLED PermanentSkip
           /\ ENABLED Quit)
    /\ ENABLED Advance
       => (pc = "get_user_response" /\ has_phases(maneuver) /\ current_phase = None)

C9_Witness ==
    /\ pc = "get_user_response"
    /\ has_phases(maneuver)
    /\ current_phase = None

\* The pool the filter is meant to compute, as one membership test.
ReferencePool ==
    SelectSeq(all_maneuvers,
              LAMBDA m :
                  IF maneuver_kind = "emergency"
                  THEN IsEmergency(m)
                  ELSE /\ \/ maneuver_kind = "all"
                          \/ IsEmergency(m)
                          \/ Lower(GetOrEmpty(m.kind)) = maneuver_kind
                       /\ include_emergencies \/ ~IsEmergency(m))

\* C10: filter_maneuvers computes exactly the reference pool for every catalog,
\* kind and include flag (it fails exactly when that pool is empty), and an
\* excluded emergency is never in the result.
C10_FilterIsReference ==
    /\ pc = "wait" => (maneuvers = ReferencePool /\ maneuvers # <<>>)
    /\ pc = "done" => (outcome = "filter_error" /\ ReferencePool = <<>>
                       /\ maneuvers = <<>>)
    /\ (pc = "wait" /\ ~include_emergencies /\ maneuver_kind # "emergency")
       => \A i \in 1..Len(maneuvers) : ~IsEmergency(maneuvers[i])

C10_Witness ==
    /\ pc = "wait"
    /\ maneuver_kind = "private"
    /\ include_emergencies
    /\ Len(maneuvers) = 2
    /\ IsEmergency(maneuvers[1])
    /\ ~IsEmergency(maneuvers[2])

\* C11: for every catalog and kind the pool with emergencies included is a
\* superset of the pool with emergencies excluded, and what the two differ by
\* is exactly the emergencies the exclusion removed (none for emergency-only).
C11_IncludeIsSuperset ==
    LET with == filtered(all_maneuvers, maneuver_kind, TRUE)
        without == filtered(all_maneuvers, maneuver_kind, FALSE)
    IN  /\ pc = "wait" =>
               maneuvers = IF include_emergencies THEN with ELSE without
        /\ without = SelectSeq(with, LAMBDA m : InList(m, without))
        /\ Range(with) \ Range(without)
               = IF maneuver_kind = "emergency"
                 THEN {}
                 ELSE {m \in Range(with) : IsEmergency(m)}

C11_Witness ==
    /\ pc = "wait"
    /\ include_emergencies
    /\ maneuver_kind = "private"
    /\ Len(maneuvers) = 2
    /\ Len(filtered(all_maneuvers, maneuver_kind, FALSE)) = 1

SetupPrompts ==
    {"prompt_session_mode", "prompt_maneuver_kind",
     "prompt_include_emergencies", "prompt_emergency_mode"}

\* C12: when the filtered pool is empty filter_maneuvers fails and leaves the
\* active pool as it was; run() then starts no session: nothing is selected or
\* presented and no history entry is written.
C12_EmptySelectionFails ==
    /\ (pc \notin SetupPrompts \cup {"filter_maneuvers"}
        /\ outcome # "uncaught_interrupt"
        /\ filtered(all_maneuvers, maneuver_kind, include_emergencies) = <<>>)
       => outcome = "filter_error"
    /\ outcome = "filter_error"
       => (/\ filtered(all_maneuvers, maneuver_kind, include_emergencies) = <<>>
           /\ maneuvers = <<>>
           /\ maneuver = NoManeuver
           /\ presented = <<>>
           /\ history = <<>>
           /\ history_file = NoFile)

C12_Witness ==
    /\ outcome = "filter_error"
    /\ all_maneuvers = CountManeuvers
    /\ maneuver_kind = "private"
    /\ ~include_emergencies

\* C13 as claimed: after a filter attempt that produced an empty pool the run
\* goes on, the user is asked for the preferences again.
C13_FilterErrorRecoverable ==
    outcome = "filter_error" => pc \in SetupPrompts \cup {"filter_maneuvers"}

\* C13 as amended: a filter attempt that produces an empty pool ends the run:
\* run() returns, no prompt follows and no step of a session can be taken.
C13_FilterErrorEndsRun ==
    outcome = "filter_error" =>
        (pc = "done" /\ ~summary_shown /\ ~ENABLED Next)

C13_Witness ==
    /\ outcome = "filter_error"
    /\ session_mode = "indefinite"
    /\ all_maneuvers = PhasedManeuvers

\* C14: while a session runs the active pool holds only maneuvers of the
\* filtered catalog, in their order, and is not empty when select_maneuver is
\* called, so its 'No maneuvers configured!' error is never raised.
C14_PoolNonEmpty ==
    /\ \A i \in 1..Len(maneuvers) :
          InList(maneuvers[i],
                 filtered(all_maneuvers, maneuver_kind, include_emergencies))
    /\ pc \in {"wait", "get_user_response", "confirm_permanent_skip"}
       => maneuvers # <<>>
    /\ outcome # "error"

C14_Witness ==
    /\ pc = "wait"
    /\ Len(skipped_maneuvers) = 1
    /\ Len(maneuvers) = 1

\* C15: in fixed mode every completed maneuver is a member of the active pool
\* and none is permanently skipped.
C15_CompletedInPool ==
    session_mode = "fixed" =>
        \A i \in 1..Len(completed_maneuvers) :
            /\ InList(completed_maneuvers[i], maneuvers)
            /\ ~InList(completed_maneuvers[i], skipped_maneuvers)

C15_Witness ==
    /\ session_mode = "fixed"
    /\ completed_maneuvers # <<>>
    /\ skipped_maneuvers # <<>>
    /\ pc = "wait"

\* C16: when every save of the writing tracker succeeded, a second tracker
\* loaded from the same file has the writer's history: same count, same order,
\* same timestamp, maneuver, type and status, and a phase key on exactly the
\* entries recorded with a phase.
C16_HistoryRoundTrip ==
    (pc = "tracker" /\ fresh # Unloaded /\ failed = {} /\ history_type = "list") =>
        /\ ~fresh.raised
        /\ fresh.type = "list"
        /\ Len(fresh.items) = Len(history)
        /\ \A i \in 1..Len(history) :
              /\ DOMAIN fresh.items[i] = DOMAIN history[i]
              /\ fresh.items[i] = history[i]

C16_Witness ==
    /\ fresh.type = "list"
    /\ failed = {}
    /\ Len(fresh.items) = 2
    /\ "phase" \notin DOMAIN fresh.items[1]
    /\ "phase" \in DOMAIN fresh.items[2]
    /\ fresh.items[1].timestamp = fresh.items[2].timestamp
    /\ fresh.items[1].type = "normal"

\* C17: a missing, corrupt or unreadable history file never blocks: the load
\* gives an empty list without raising, and no later record_maneuver or
\* get_follow_ups call raises.
C17_LoadNeverBlocks ==
    /\ pc # "raised"
    /\ (pc = "tracker" /\ failed = {} /\ history_file.kind # "list")
       => (history_type = "list" /\ history = <<>>)

\* C18: a record_maneuver call that returns has appended exactly one entry, and
\* when its save succeeded the file holds the whole in-memory history.
C18_WriteThrough ==
    [][(pc = "tracker" /\ pc' = "tracker" /\ history' # history) =>
          /\ Len(history') = Len(history) + 1
          /\ SubSeq(history', 1, Len(history)) = history
          /\ ~warned' =>
                /\ history_file' = Dump(history')
                /\ load_history(history_file') = Loaded(FALSE, "list", history')]_vars

C18_Witness ==
    /\ pc = "tracker"
    /\ ~warned
    /\ failed = {}
    /\ Len(history) = 2
    /\ history[1] # PriorEntry
    /\ history_file = Dump(history)

\* Entries whose record_maneuver call had returned when the process died.
Returned ==
    IF pc = "crashed_in_save"
    THEN SubSeq(history, 1, Len(history) - 1)
    ELSE history

\* C19: after a crash, between calls or inside record_maneuver, the file still
\* holds every entry whose record_maneuver call had returned (no save having
\* failed before).
C19_CrashKeepsReturned ==
    (pc \in {"crashed", "crashed_in_save"} /\ failed = {} /\ history_type = "list")
    => LET persisted == load_history(history_file)
       IN  /\ ~persisted.raised
           /\ persisted.type = "list"
           /\ Len(persisted.items) >= Len(Returned)
           /\ SubSeq(persisted.items, 1, Len(Returned)) = Returned

\* C20: a save that fails does not make record_maneuver raise and does not lose
\* the entry from memory; records keep accumulating, and the next save that
\* succeeds writes every entry, those whose own save failed included.
C20_SaveFailureNonFatal ==
    [][/\ (pc = "tracker" /\ history_type = "list") => pc' # "raised"
       /\ (pc = "tracker" /\ pc' = "tracker" /\ history' # history) =>
             /\ history' = Append(history, history'[Len(history')])
             /\ warned' => failed' = failed \cup {Len(history')}
             /\ ~warned' =>
                   /\ failed' = failed
                   /\ load_history(history_file') = Loaded(FALSE, "list", history')]_vars

C20_Witness ==
    /\ pc = "tracker"
    /\ failed = {1}
    /\ ~warned
    /\ Len(history) = 2
    /\ load_history(history_file).items = history

\* Positions of the entries of h flagged for review.
ReviewPositions(h) == {i \in 1..Len(h) : h[i].status = "review"}

\* The k-th smallest member of a set of positions.
KthPosition(ps, k) == CHOOSE i \in ps : Cardinality({j \in ps : j < i}) = k - 1

\* C21: get_follow_ups returns exactly the entries whose status is 'review', in
\* insertion order, entries loaded from the file included, and leaves the
\* history and its file as they were.
C21_FollowUpsAreReviews ==
    [][(pc = "tracker" /\ pc' = "tracker" /\ follow_ups' # follow_ups
        /\ follow_ups' # <<>>) =>
          /\ history' = history
          /\ history_type' = history_type
          /\ history_file' = history_file
          /\ Len(follow_ups'[1]) = Cardinality(ReviewPositions(history))
          /\ \A k \in 1..Len(follow_ups'[1]) :
                follow_ups'[1][k]
                    = history[KthPosition(ReviewPositions(history), k)]]_vars

C21_Witness ==
    /\ pc = "tracker"
    /\ Len(history) = 2
    /\ history[1] = PriorEntry
    /\ history[2].status = "review"
    /\ history[2].maneuver = "Engine Fire"
    /\ follow_ups = <<history>>

\* s is the beginning of t.
IsPrefix(s, t) == Len(s) <= Len(t) /\ SubSeq(t, 1, Len(s)) = s

\* The entries a load of the file yields.
Persisted(file) == load_history(file).items

\* C22: the history only grows at its end: in every step of a session the
\* in-memory history before the step is a prefix of the one after it, and so
\* is the sequence persisted in the file.
C22_AppendOnly ==
    [][/\ IsPrefix(history, history')
       /\ IsPrefix(Persisted(history_file), Persisted(history_file'))]_vars

\* The in-memory half of C22 on its own.
C22_MemoryAppendOnly == [][IsPrefix(history, history')]_vars

\* C23: a Ctrl-C at any point of a run, setup prompts included, is handled as
\* a quit is: the run ends through show_summary and not with an error.
C23_InterruptIsGraceful ==
    outcome \in {"interrupted", "uncaught_interrupt"} =>
        (outcome = "interrupted" /\ summary_shown)

\* The part of C23 the code meets: a Ctrl-C inside the loop of run() ends the
\* run through show_summary, as a quit does.
C23_InterruptInLoopIsGraceful ==
    [][(pc \in {"wait", "get_user_response", "confirm_permanent_skip"}
        /\ outcome' \in {"interrupted", "uncaught_interrupt"}) =>
          (outcome' = "interrupted" /\ summary_shown' /\ pc' = "done")]_vars

\* A probability the claim admits: absent, or a number of [0,100].
ProbabilityAdmitted(p) ==
    p.tag \in {"absent", "none"}
    \/ (p.tag \in {"number", "bool"} /\ 0 <= p.v /\ p.v <= 100)

\* The dicts the claim wants refused.
ConfigRefused(c) ==
    \/ c.maneuvers_file = Absent
    \/ (c.interval_min_sec = NoKey) # (c.interval_max_sec = NoKey)
    \/ (c.interval_min_sec # NoKey /\ c.interval_max_sec # NoKey
        /\ c.interval_min_sec.v > c.interval_max_sec.v)
    \/ ~ProbabilityAdmitted(c.emergency_probability)

\* What the claim states of a Configuration that was constructed.
ConfigWellFormed(cfg) ==
    /\ \/ (cfg.interval_min_sec = NoneValue /\ cfg.interval_max_sec = NoneValue
           /\ is_manual_mode(cfg))
       \/ (cfg.interval_min_sec.tag = "number" /\ cfg.interval_max_sec.tag = "number"
           /\ cfg.interval_min_sec.v <= cfg.interval_max_sec.v
           /\ ~is_manual_mode(cfg))
    /\ ProbabilityAdmitted(cfg.emergency_probability)

\* C24: construction fails for every dict the claim wants refused, and every
\* Configuration constructed has no bounds (manual mode) or two bounds with
\* min <= max (not manual), and a probability that is None or within [0,100],
\* 0 and 100 accepted.
C24_ConfigurationValidated ==
    pc \in {"constructed", "config_error"} =>
        /\ ConfigRefused(config_dict) <=> pc = "config_error"
        /\ pc = "constructed" => ConfigWellFormed(configuration)

\* C24 for every probability but NaN.
C24_ValidatedUnlessNaN ==
    (pc \in {"constructed", "config_error"}
     /\ config_dict.emergency_probability # NaN)
    => /\ ConfigRefused(config_dict) <=> pc = "config_error"
       /\ pc = "constructed" => ConfigWellFormed(configuration)

\* C26: in an indefinite session select_maneuver never returns the terminal
\* signal, and the session ends only on a quit, on the pool emptied by
\* permanent skips or on an interrupt, never by completing, reviewing or
\* skipping maneuvers; the same maneuver can be presented again.
C26_IndefiniteNeverExhausts ==
    session_mode = "indefinite" =>
        /\ pc = "wait" => NoManeuver \notin select_maneuver
        /\ outcome # "all_completed"
        /\ (pc = "done" /\ outcome \notin {"filter_error", "uncaught_interrupt"})
           => outcome \in {"quit", "empty_pool", "interrupted"}
        /\ outcome = "empty_pool" => (maneuvers = <<>> /\ skipped_maneuvers # <<>>)
        /\ (pc = "wait" /\ maneuver # NoManeuver
            /\ ~InList(maneuver, skipped_maneuvers))
           => maneuver \in select_maneuver

C26_Witness ==
    /\ session_mode = "indefinite"
    /\ all_maneuvers = TestManeuvers
    /\ pc = "wait"
    /\ Len(maneuvers) = 1
    /\ Len(presented) = 2
    /\ presented[1] = presented[2]
    /\ Len(history) = 2
    /\ history[1].status = "completed"

\* C27 as claimed: record_maneuver is a read-modify-write of the file: after a call whose
\* save succeeded (none having failed before) the file holds what it held just
\* before the call, followed by the new entry, so what another tracker wrote
\* to the file in the meantime is kept.
C27_ReadModifyWrite ==
    [][(pc = "tracker" /\ pc' = "tracker" /\ history' # history
        /\ failed' = {}) =>
          Persisted(history_file')
              = Append(Persisted(history_file), history'[Len(history')])]_vars

\* C27 as amended: record_maneuver rewrites the whole file from the in-memory
\* history without reading it: after a call whose save succeeded the file
\* holds exactly the in-memory history, so what another tracker saved in the
\* meantime is overwritten; when the file held the in-memory history before
\* the call, it holds its previous content followed by the new entry.
C27_WholeRewrite ==
    [][(pc = "tracker" /\ pc' = "tracker" /\ history' # history /\ ~warned') =>
          /\ Persisted(history_file') = history'
          /\ \A i \in 1..Len(other_entries) :
                ~InList(other_entries[i], Persisted(history_file'))
          /\ Persisted(history_file) = history =>
                Persisted(history_file')
                    = Append(Persisted(history_file), history'[Len(history')])]_vars

C27_Witness ==
    /\ pc = "tracker"
    /\ other_entries # <<>>
    /\ ~warned
    /\ failed = {}
    /\ Len(history) = 2
    /\ history[1] = PriorEntry
    /\ Persisted(history_file) = history

\* C28: select_phase returns None for a maneuver without phases and a member
\* of the phase list otherwise; so whenever 'n' is offered the call yields a
\* phase, the phase shown is one of the maneuver's, and the 'No phases
\* available' branch is never taken.
C28_AdvanceYieldsPhase ==
    /\ \A i \in 1..Len(all_maneuvers) :
          LET m == all_maneuvers[i]
          IN  IF m.phases = <<>>
              THEN select_phase(m) = {None}
              ELSE select_phase(m) \subseteq Range(m.phases)
    /\ (pc = "get_user_response" /\ show_next) =>
          (select_phase(maneuver) # {}
           /\ \A phase \in select_phase(maneuver) : Truthy(phase))
    /\ (pc \in {"get_user_response", "confirm_permanent_skip"}
        /\ current_phase # None) =>
          (has_phases(maneuver) /\ current_phase \in Range(maneuver.phases))

\* The candidate set of a draw: the pool, less the completed maneuvers in a
\* fixed session.
Candidates ==
    { m \in Range(maneuvers) :
        session_mode = "fixed" => m \notin Range(completed_maneuvers) }

EmergencyCandidates == { m \in Candidates : IsEmergency(m) }

\* The maneuvers a draw may return, as a function of mode and probability.
Returnable ==
    IF \/ (session_mode = "fixed" /\ emergency_mode = "all")
       \/ emergency_probability = <<>>
       \/ EmergencyCandidates = {}
       \/ EmergencyCandidates = Candidates
    THEN Candidates
    ELSE IF emergency_probability[1] = 100 THEN EmergencyCandidates
    ELSE IF emergency_probability[1] = 0 THEN Candidates \ EmergencyCandidates
    ELSE Candidates

\* C29: on a non-empty pool the maneuvers select_maneuver can return are the
\* whole candidate set under uniform selection or with one class present, the
\* emergency candidates at probability 100, the others at probability 0 and
\* every candidate in between; the maneuver presented is in the pool and, in a
\* fixed session, not completed.
C29_SelectableSet ==
    /\ (pc = "wait" /\ maneuvers # <<>>) =>
          /\ select_maneuver \ {NoManeuver} = Returnable
          /\ NoManeuver \in select_maneuver
                <=> (session_mode = "fixed" /\ Candidates = {})
          /\ select_maneuver \ {NoManeuver} \subseteq Range(maneuvers)
          /\ session_mode = "fixed" =>
                select_maneuver \cap Range(completed_maneuvers) = {}
    /\ pc = "get_user_response" =>
          /\ InList(maneuver, maneuvers)
          /\ session_mode = "fixed" => ~InList(maneuver, completed_maneuvers)

C29_Witness ==
    /\ pc = "wait"
    /\ session_mode = "fixed"
    /\ emergency_mode = "random"
    /\ emergency_probability = <<0>>
    /\ Len(completed_maneuvers) = 1
    /\ EmergencyCandidates # {}
    /\ select_maneuver = Candidates \ EmergencyCandidates
    /\ select_maneuver # Candidates

\* C30: a step that records ('c' or 'f') appends exactly one entry for the
\* presented maneuver, with status completed (only where 'c' is offered) or
\* review and the current phase if there is one, and ends the cycle; in a
\* fixed session the maneuver is then in the completed list, once, and nothing
\* else was added; in an indefinite session the completed list is empty before
\* and after every step.
C30_RecordAndComplete ==
    [][ /\ history' # history =>
            /\ pc = "get_user_response"
            /\ pc' = "wait"
            /\ Len(history') = Len(history) + 1
            /\ SubSeq(history', 1, Len(history)) = history
            /\ LET e == history'[Len(history')]
               IN  /\ e.maneuver = maneuver.name
                   /\ e.status \in {"completed", "review"}
                   /\ e.status = "completed" => show_complete
                   /\ IF current_phase = None
                      THEN "phase" \notin DOMAIN e
                      ELSE "phase" \in DOMAIN e /\ e.phase = current_phase
            /\ session_mode = "fixed" =>
                  /\ InList(maneuver, completed_maneuvers')
                  /\ NoRepeat(completed_maneuvers')
                  /\ completed_maneuvers' \in
                        {completed_maneuvers,
                         Append(completed_maneuvers, maneuver)}
        /\ session_mode = "indefinite" => completed_maneuvers = <<>>
        /\ session_mode' = "indefinite" => completed_maneuvers' = <<>>
      ]_vars

C30_Witness ==
    /\ session_mode = "fixed"
    /\ pc = "wait"
    /\ Len(history) = 2
    /\ history[1].status = "completed"
    /\ "phase" \notin DOMAIN history[1]
    /\ history[2].status = "review"
    /\ "phase" \in DOMAIN history[2]
    /\ history[2].phase = "Phase 2"
    /\ Len(completed_maneuvers) = 2
    /\ completed_maneuvers[2].name = "Engine Fire"

\* C31: 'skip without recording' leaves the history in memory and the history
\* file as they were, applies the completion bookkeeping of 'mark complete'
\* and ends the cycle; in a fixed session the maneuver is then in the completed
\* list, is no value the next selection can return, and no maneuver resolved
\* before is presented.
C31_SkipRecordsNothing ==
    [][ /\ Skip =>
            /\ history' = history
            /\ history_file' = history_file
            /\ completed_maneuvers' = mark_maneuver_completed(maneuver)
            /\ maneuvers' = maneuvers
            /\ pc' = "wait"
            /\ session_mode = "fixed" =>
                  /\ InList(maneuver, completed_maneuvers')
                  /\ maneuver \notin select_maneuver'
        /\ (session_mode = "fixed" /\ NextManeuver
            /\ pc' = "get_user_response") => maneuver' \notin resolved
      ]_vars

C31_Witness ==
    /\ session_mode = "fixed"
    /\ pc = "get_user_response"
    /\ Len(presented) = 2
    /\ history = <<>>
    /\ history_file = NoFile
    /\ completed_maneuvers = <<presented[1]>>
    /\ resolved = {presented[1]}

\* C32: 'q' is accepted at every prompt of a presented maneuver; it ends the
\* session at once with the quit outcome, nothing is selected or presented
\* after it, and the history in memory and on file, the completed list, the
\* active pool and the permanently skipped list are what they were.
C32_QuitDoesNoBookkeeping ==
    [][ /\ pc = "get_user_response" =>
              "q" \in get_user_response(show_next, show_complete)
        /\ Quit =>
            /\ pc' = "done"
            /\ outcome' = "quit"
            /\ history' = history
            /\ history_file' = history_file
            /\ completed_maneuvers' = completed_maneuvers
            /\ maneuvers' = maneuvers
            /\ skipped_maneuvers' = skipped_maneuvers
            /\ presented' = presented
        /\ pc # "done"
      ]_vars

C32_Witness ==
    /\ pc = "done"
    /\ outcome = "quit"
    /\ session_mode = "fixed"
    /\ current_phase = "Phase 1"
    /\ Len(history) = 1
    /\ Len(completed_maneuvers) = 1
    /\ ~InList(maneuver, completed_maneuvers)

\* C33: answering no to the permanent-skip confirmation changes neither the
\* active pool, the permanently skipped list, the completed list nor the
\* history in memory and on file, and the same maneuver is prompted for again
\* with the phase it had, chosen or not.
C33_DeclineIsNoOp ==
    [][ CancelSkip =>
            /\ maneuvers' = maneuvers
            /\ skipped_maneuvers' = skipped_maneuvers
            /\ completed_maneuvers' = completed_maneuvers
            /\ history' = history
            /\ history_file' = history_file
            /\ pc' = "get_user_response"
            /\ maneuver' = maneuver
            /\ current_phase' = current_phase
            /\ presented' = presented
            /\ outcome' = outcome
      ]_vars

C33_Witness ==
    /\ pc = "confirm_permanent_skip"
    /\ ENABLED CancelSkip
    /\ current_phase = "Phase 2"
    /\ Len(skipped_maneuvers) = 1
    /\ maneuvers = <<maneuver>>

C35_NoPhaseCompletes ==
    [][ (Advance /\ pc' = "wait") =>
            /\ completed_maneuvers' = mark_maneuver_completed(maneuver)
            /\ session_mode = "fixed" =>
                  /\ InList(maneuver, completed_maneuvers')
                  /\ maneuver \notin select_maneuver'
      ]_vars

\* C35, the part the code does: the cycle ends without a crash and without a
\* history entry, and the session goes on.
C35_NoPhaseEndsCycle ==
    [][ (Advance /\ ~Truthy(current_phase')) =>
            /\ pc' = "wait"
            /\ outcome' = outcome
            /\ history' = history
            /\ maneuvers' = maneuvers
      ]_vars

\* C36: 'n' is accepted exactly while the presented maneuver has phases and
\* none is chosen; the step it causes shows the same maneuver again with a
\* phase of that maneuver's list; a phase once chosen changes only when the
\* next maneuver is selected.
C36_PhaseChosenOnce ==
    [][ /\ pc = "get_user_response" =>
              ("n" \in get_user_response(show_next, show_complete)
                  <=> (has_phases(maneuver) /\ current_phase = None))
        /\ Advance =>
              /\ has_phases(maneuver)
              /\ current_phase = None
              /\ pc' = "get_user_response"
              /\ maneuver' = maneuver
              /\ current_phase' \in Range(maneuver.phases)
              /\ Truthy(current_phase')
        /\ (current_phase # None /\ current_phase' # current_phase) =>
              (pc = "wait" /\ current_phase' = None)
        /\ (pc \in {"get_user_response", "confirm_permanent_skip"}
            /\ pc' \in {"get_user_response", "confirm_permanent_skip"}) =>
              maneuver' = maneuver
      ]_vars

\* The maneuvers of the catalog an entry can be about.
ManeuversNamed(name) == { m \in Range(all_maneuvers) : m.name = name }

\* C37: every completed entry of the history for a maneuver with phases has a
\* phase, one of that maneuver's phase names; 'f' is accepted, and 'c' is not,
\* while such a maneuver is shown without a phase, so a review entry may have
\* none.
C37_CompletedCarriesPhase ==
    /\ \A i \in 1..Len(history) :
          \A m \in ManeuversNamed(history[i].maneuver) :
             (history[i].status = "completed" /\ has_phases(m)) =>
                /\ "phase" \in DOMAIN history[i]
                /\ history[i].phase \in Range(m.phases)
    /\ (pc = "get_user_response" /\ has_phases(maneuver)
        /\ current_phase = None) =>
          /\ "f" \in get_user_response(show_next, show_complete)
          /\ "c" \notin get_user_response(show_next, show_complete)

C37_Witness ==
    /\ Len(history) = 2
    /\ history[1].maneuver = "Engine Fire"
    /\ history[1].status = "review"
    /\ "phase" \notin DOMAIN history[1]
    /\ history[2].maneuver = "Engine Fire"
    /\ history[2].status = "completed"
    /\ history[2].phase = "Phase 1"

\* C38: a confirmed permanent skip appends the maneuver to the permanently
\* skipped list and takes it out of the active pool, and leaves the history in
\* memory and on file and the completed list alone; the history grows only by
\* 'c' and 'f', by exactly one entry each, so that a cycle adds one entry when
\* it ends by complete or review and none otherwise.
C38_PermanentSkipFrame ==
    [][ /\ ConfirmSkip =>
              /\ history' = history
              /\ history_file' = history_file
              /\ completed_maneuvers' = completed_maneuvers
              /\ skipped_maneuvers' = Append(skipped_maneuvers, maneuver)
              /\ ~InList(maneuver, maneuvers')
              /\ \A i \in 1..Len(maneuvers') : InList(maneuvers'[i], maneuvers)
        /\ (Completed \/ Review) => Len(history') = Len(history) + 1
        /\ history' # history =>
              /\ Completed \/ Review
              /\ pc' = "wait"
        /\ pc \in {"get_user_response", "confirm_permanent_skip"} =>
              Len(history) < Len(presented)
        /\ Len(history') <= Len(presented')
      ]_vars

C38_Witness ==
    /\ session_mode = "fixed"
    /\ Len(presented) = 2
    /\ Len(history) = 1
    /\ skipped_maneuvers = <<presented[2]>>
    /\ completed_maneuvers = <<presented[1]>>
    /\ ~InList(presented[2], maneuvers)
    /\ pc = "wait"

\* C39: in a fixed session with emergency_mode all, the remaining count after
\* a resolution, the size of the active pool minus the size of the completed
\* list, is the number of maneuvers select_maneuver can still draw from, for
\* every catalog, also one with structurally identical maneuvers; it is
\* printed exactly when it is positive.
C39_RemainingIsSelectable ==
    (session_mode = "fixed" /\ emergency_mode = "all" /\ JustResolved) =>
        /\ Len(maneuvers) - Len(completed_maneuvers) = Len(available)
        /\ printed = IF Len(available) > 0 THEN <<Len(available)>> ELSE <<>>

\* C39 for pools without two equal maneuvers.
C39_RemainingUnlessEqual ==
    (session_mode = "fixed" /\ emergency_mode = "all" /\ JustResolved
     /\ NoRepeat(maneuvers)) =>
        /\ Len(maneuvers) - Len(completed_maneuvers) = Len(available)
        /\ printed = IF Len(available) > 0 THEN <<Len(available)>> ELSE <<>>

====
